---- MODULE Spec2Model ----
(***************************************************************************)
(* A model of ssmdm/misc.py: the click generators, the factor-analysis EM  *)
(* loop, the moving-average smoother, the accumulator simulator, the PSTH  *)
(* index binning and the R^2 evaluator.  Each function of the file has its *)
(* own variables (prefixed cl_, fa_, sm_, sim_, ps_, r2_) and its own      *)
(* specification; the variables of the other functions are held idle.      *)
(***************************************************************************)
EXTENDS Integers, Sequences, FiniteSets, TLC

VARIABLES
    \* smooth
    sm_xs, sm_window_size, sm_x_smooth, sm_t, sm_pc,
    \* compute_r2
    r2_N, r2_i, r2_j, r2_true_psth, r2_sim_psth, r2_mean_PSTH, r2_num, r2_den,
    r2_r2, r2_same, r2_pc,
    \* simulate_accumulator
    sim_inputs, sim_num_repeats, sim_r, sim_n, sim_ys, sim_calls, sim_pc,
    \* plot_psths
    ps_inputs, ps_u_sums, ps_idx_sort, ps_u_below_0, ps_u_above_0, ps_u_0,
    ps_all_idx, ps_pc,
    \* factor_analysis
    fa_D, fa_ys, fa_num_iters, fa_trange, fa_i, fa_lamb, fa_Cfa, fa_psi, fa_lls,
    fa_my_xhats, fa_pc,
    \* generate_clicks, generate_clicks_D
    cl_fn, cl_T, cl_dt, cl_rates, cl_num, cl_times, cl_binned, cl_pc

smVars == <<sm_xs, sm_window_size, sm_x_smooth, sm_t, sm_pc>>

r2Vars == <<r2_N, r2_i, r2_j, r2_true_psth, r2_sim_psth, r2_mean_PSTH, r2_num,
            r2_den, r2_r2, r2_same, r2_pc>>

simVars == <<sim_inputs, sim_num_repeats, sim_r, sim_n, sim_ys, sim_calls, sim_pc>>

psVars == <<ps_inputs, ps_u_sums, ps_idx_sort, ps_u_below_0, ps_u_above_0, ps_u_0,
            ps_all_idx, ps_pc>>

faVars == <<fa_D, fa_ys, fa_num_iters, fa_trange, fa_i, fa_lamb, fa_Cfa, fa_psi,
            fa_lls, fa_my_xhats, fa_pc>>

clVars == <<cl_fn, cl_T, cl_dt, cl_rates, cl_num, cl_times, cl_binned, cl_pc>>

vars == <<smVars, r2Vars, simVars, psVars, faVars, clVars>>

\* the variables of a function that is not running
IdleSmooth ==
    /\ sm_xs = <<>> /\ sm_window_size = 0 /\ sm_x_smooth = <<>>
    /\ sm_t = 0 /\ sm_pc = "idle"

IdleR2 ==
    /\ r2_N = 0 /\ r2_i = 0 /\ r2_j = 0 /\ r2_true_psth = <<>>
    /\ r2_sim_psth = <<>> /\ r2_mean_PSTH = <<0, 1>> /\ r2_num = <<0, 1>>
    /\ r2_den = <<0, 1>> /\ r2_r2 = <<>> /\ r2_same = <<>> /\ r2_pc = "idle"

IdleSim ==
    /\ sim_inputs = <<>> /\ sim_num_repeats = 0 /\ sim_r = 0 /\ sim_n = 0
    /\ sim_ys = <<>> /\ sim_calls = <<>> /\ sim_pc = "idle"

IdlePsth ==
    /\ ps_inputs = <<>> /\ ps_u_sums = <<>> /\ ps_idx_sort = <<>>
    /\ ps_u_below_0 = 0 /\ ps_u_above_0 = 0 /\ ps_u_0 = <<>>
    /\ ps_all_idx = <<>> /\ ps_pc = "idle"

IdleFA ==
    /\ fa_D = 0 /\ fa_ys = <<>> /\ fa_num_iters = 0 /\ fa_trange = FALSE
    /\ fa_i = 0 /\ fa_lamb = 0 /\ fa_Cfa = 0 /\ fa_psi = <<>> /\ fa_lls = <<>>
    /\ fa_my_xhats = <<>> /\ fa_pc = "idle"

IdleClicks ==
    /\ cl_fn = "none" /\ cl_T = <<>> /\ cl_dt = <<>> /\ cl_rates = <<>>
    /\ cl_num = <<>> /\ cl_times = <<>> /\ cl_binned = <<>> /\ cl_pc = "idle"

(***************************************************************************)
(* Exact numbers.  A value computed by numpy from small integers is kept   *)
(* as a reduced fraction <<n, d>> with d > 0; <<0, 0>> is NaN (the mean of *)
(* an empty slice, 0/0).                                                   *)
(***************************************************************************)
Abs(x) == IF x < 0 THEN -x ELSE x

RECURSIVE GCD(_, _)
GCD(a, b) == IF b = 0 THEN a ELSE GCD(b, a % b)

NaN == <<0, 0>>

\* <<1, 0>> and <<-1, 0>> are +inf and -inf
Sign(x) == IF x > 0 THEN 1 ELSE IF x < 0 THEN -1 ELSE 0

IsNaN(q) == q = NaN

IsFinite(q) == q[2] # 0

Rat(n, d) ==
    IF d = 0 THEN <<Sign(n), 0>>
    ELSE LET g == GCD(Abs(n), Abs(d))
             s == IF d < 0 THEN -1 ELSE 1
         IN  <<s * (n \div g), s * (d \div g)>>

FromInt(k) == <<k, 1>>

RNeg(p) == <<-p[1], p[2]>>

RAdd(p, q) ==
    IF IsFinite(p) /\ IsFinite(q) THEN Rat(p[1] * q[2] + q[1] * p[2], p[2] * q[2])
    ELSE IF IsNaN(p) \/ IsNaN(q) THEN NaN
    ELSE IF IsFinite(p) THEN q
    ELSE IF IsFinite(q) \/ p = q THEN p
    ELSE NaN

RSub(p, q) == RAdd(p, RNeg(q))

RMul(p, q) ==
    IF IsFinite(p) /\ IsFinite(q) THEN Rat(p[1] * q[1], p[2] * q[2])
    ELSE IF IsNaN(p) \/ IsNaN(q) \/ p[1] = 0 \/ q[1] = 0 THEN NaN
    ELSE <<Sign(p[1]) * Sign(q[1]), 0>>

\* numpy float division: 0/0 is nan, x/0 is +-inf
RDiv(p, q) ==
    IF IsFinite(p) /\ IsFinite(q) THEN Rat(p[1] * q[2], p[2] * q[1])
    ELSE IF IsNaN(p) \/ IsNaN(q) \/ ~IsFinite(q) THEN NaN
    ELSE <<Sign(p[1]), 0>>

RECURSIVE SumSeq(_)
SumSeq(s) == IF s = <<>> THEN 0 ELSE Head(s) + SumSeq(Tail(s))

Min(a, b) == IF a < b THEN a ELSE b
Max(a, b) == IF a > b THEN a ELSE b

\* np.arange(lo, hi) for integers: lo, lo+1, ..., hi-1
Arange(lo, hi) == [k \in 1..Max(hi - lo, 0) |-> lo + k - 1]

\* np.mean of a sequence of integers; nan when it is empty
Mean(s) == Rat(SumSeq(s), Len(s))

(***************************************************************************)
(* IEEE 754 double precision, for the arithmetic of the click generators.  *)
(*                                                                         *)
(* A natural number is a sequence of limbs in base 2^15, least significant *)
(* first, without leading zero limbs.  A non-negative double is a record   *)
(* [m, e] of value m * 2^e, with m of exactly 53 bits, or m = <<>> and     *)
(* e = 0 for 0.0.  Results are rounded to nearest, ties to even.  No value *)
(* met here is subnormal, infinite or nan.                                 *)
(***************************************************************************)
Base == 2 ^ 15
MantBits == 53

RECURSIVE BNorm(_)
BNorm(x) == IF x # <<>> /\ x[Len(x)] = 0 THEN BNorm(SubSeq(x, 1, Len(x) - 1)) ELSE x

RECURSIVE BAddC(_, _, _)
BAddC(x, y, c) ==
    IF x = <<>> /\ y = <<>> THEN (IF c = 0 THEN <<>> ELSE <<c>>)
    ELSE LET a == IF x = <<>> THEN 0 ELSE Head(x)
             b == IF y = <<>> THEN 0 ELSE Head(y)
             t == a + b + c
         IN  <<t % Base>> \o BAddC(IF x = <<>> THEN x ELSE Tail(x),
                                   IF y = <<>> THEN y ELSE Tail(y), t \div Base)

BAdd(x, y) == BAddC(x, y, 0)

\* x - y for x >= y
RECURSIVE BSubB(_, _, _)
BSubB(x, y, b) ==
    IF x = <<>> THEN <<>>
    ELSE LET t == Head(x) - (IF y = <<>> THEN 0 ELSE Head(y)) - b
         IN  <<t % Base>> \o BSubB(Tail(x), IF y = <<>> THEN y ELSE Tail(y),
                                   IF t < 0 THEN 1 ELSE 0)

BSub(x, y) == BNorm(BSubB(x, y, 0))

\* -1, 0 or 1 as x <, =, > y
RECURSIVE BCmpAt(_, _, _)
BCmpAt(x, y, k) ==
    IF k = 0 THEN 0
    ELSE IF x[k] # y[k] THEN (IF x[k] < y[k] THEN -1 ELSE 1)
    ELSE BCmpAt(x, y, k - 1)

BCmp(x, y) ==
    IF Len(x) # Len(y) THEN (IF Len(x) < Len(y) THEN -1 ELSE 1)
    ELSE BCmpAt(x, y, Len(x))

\* x * k for 0 <= k <= Base
RECURSIVE BMulC(_, _, _)
BMulC(x, k, c) ==
    IF x = <<>> THEN (IF c = 0 THEN <<>> ELSE <<c>>)
    ELSE LET t == Head(x) * k + c
         IN  <<t % Base>> \o BMulC(Tail(x), k, t \div Base)

BMulSmall(x, k) == BNorm(BMulC(x, k, 0))

\* <<x \div k, x % k>> for 0 < k <= Base
RECURSIVE BDivAt(_, _, _, _)
BDivAt(x, k, i, rem) ==
    IF i = 0 THEN <<<<>>, rem>>
    ELSE LET cur == rem * Base + x[i]
             rest == BDivAt(x, k, i - 1, cur % k)
         IN  <<Append(rest[1], cur \div k), rest[2]>>

BDivSmall(x, k) == LET r == BDivAt(x, k, Len(x), 0) IN <<BNorm(r[1]), r[2]>>

BShl(x, n) ==
    IF x = <<>> THEN x
    ELSE BMulSmall([k \in 1..(n \div 15) |-> 0] \o x, 2 ^ (n % 15))

BShr(x, n) ==
    IF n \div 15 >= Len(x) THEN <<>>
    ELSE BDivSmall(SubSeq(x, (n \div 15) + 1, Len(x)), 2 ^ (n % 15))[1]

RECURSIVE BitLenSmall(_)
BitLenSmall(v) == IF v = 0 THEN 0 ELSE 1 + BitLenSmall(v \div 2)

BitLen(x) == IF x = <<>> THEN 0 ELSE 15 * (Len(x) - 1) + BitLenSmall(x[Len(x)])

BIsOdd(x) == x # <<>> /\ x[1] % 2 = 1

\* the value of a number below Base^2
BToInt(x) == IF x = <<>> THEN 0 ELSE IF Len(x) = 1 THEN x[1] ELSE x[1] + Base * x[2]

\* the largest q with d * q <= r, at or below the estimate q
RECURSIVE FixDigit(_, _, _)
FixDigit(r, d, q) == IF BCmp(BMulSmall(d, q), r) > 0 THEN FixDigit(r, d, q - 1) ELSE q

\* r \div d for r < d * Base and d with its top limb at least Base / 2: the
\* estimate from the two top limbs of r is at most 2 above the digit
BDivDigit(r, d) ==
    LET n == Len(d)
        top == (IF Len(r) > n THEN r[n + 1] ELSE 0) * Base
                   + (IF Len(r) >= n THEN r[n] ELSE 0)
    IN  FixDigit(r, d, Min(top \div d[n], Base - 1))

\* schoolbook division, limb i of x downwards, r the remainder so far
RECURSIVE BLongDiv(_, _, _, _)
BLongDiv(x, d, i, r) ==
    IF i = 0 THEN <<<<>>, r>>
    ELSE LET cur == BNorm(<<x[i]>> \o r)
             dg == BDivDigit(cur, d)
             rest == BLongDiv(x, d, i - 1, BSub(cur, BMulSmall(d, dg)))
         IN  <<Append(rest[1], dg), rest[2]>>

\* <<n \div d, z>> for d > 0, where z = <<>> iff d divides n
BDivMod(n, d) ==
    LET s == 15 * Len(d) - BitLen(d)
        nn == BShl(n, s)
        res == BLongDiv(nn, BShl(d, s), Len(nn), <<>>)
    IN  <<BNorm(res[1]), res[2]>>

FZero == [m |-> <<>>, e |-> 0]

\* the double nearest to (x + f) * 2^e, where 0 <= f < 1 and f > 0 iff sticky
FRound(x, e, sticky) ==
    LET n == BitLen(x)
    IN  IF n = 0 THEN FZero
        ELSE IF n <= MantBits THEN [m |-> BShl(x, MantBits - n), e |-> e - (MantBits - n)]
        ELSE LET d == n - MantBits
                 q == BShr(x, d)
                 rem == BSub(x, BShl(q, d))
                 c == BCmp(rem, BShl(<<1>>, d - 1))
                 up == c > 0 \/ (c = 0 /\ (sticky \/ BIsOdd(q)))
                 m1 == IF up THEN BAdd(q, <<1>>) ELSE q
             IN  IF BitLen(m1) > MantBits
                 THEN [m |-> BShr(m1, 1), e |-> e + d + 1]
                 ELSE [m |-> m1, e |-> e + d]

\* a + b
FAdd(a, b) ==
    IF a = FZero THEN b
    ELSE IF b = FZero THEN a
    ELSE LET e == Min(a.e, b.e)
         IN  FRound(BAdd(BShl(a.m, a.e - e), BShl(b.m, b.e - e)), e, FALSE)

\* a / b for b > 0
FDiv(a, b) ==
    IF a = FZero THEN FZero
    ELSE LET qr == BDivMod(BShl(a.m, MantBits + 3), b.m)
         IN  FRound(qr[1], a.e - b.e - (MantBits + 3), qr[2] # <<>>)

\* i * a for an integer 0 <= i <= Base
FMulInt(i, a) ==
    IF i = 0 \/ a = FZero THEN FZero ELSE FRound(BMulSmall(a.m, i), a.e, FALSE)

\* -1, 0 or 1 as a <, =, > b
FCmp(a, b) ==
    IF a = FZero THEN (IF b = FZero THEN 0 ELSE -1)
    ELSE IF b = FZero THEN 1
    ELSE IF a.e # b.e THEN (IF a.e < b.e THEN -1 ELSE 1)
    ELSE BCmp(a.m, b.m)

\* ceil(a) as an integer, for a below Base^2
FCeil(a) ==
    IF a = FZero THEN 0
    ELSE IF a.e >= 0 THEN BToInt(BShl(a.m, a.e))
    ELSE LET q == BShr(a.m, -a.e)
         IN  BToInt(q) + (IF BShl(q, -a.e) = a.m THEN 0 ELSE 1)

\* the largest double below a > 0
FPred(a) ==
    IF BitLen(BSub(a.m, <<1>>)) = MantBits THEN [m |-> BSub(a.m, <<1>>), e |-> a.e]
    ELSE [m |-> BSub(BShl(a.m, 1), <<1>>), e |-> a.e - 1]

\* ceil(a / b) of the real quotient of two doubles, for a quotient below Base^2
CeilQuotient(a, b) ==
    LET s == a.e - b.e
        qr == BDivMod(BShl(a.m, Max(s, 0)), BShl(b.m, Max(-s, 0)))
    IN  BToInt(qr[1]) + (IF qr[2] = <<>> THEN 0 ELSE 1)

(***************************************************************************)
(* smooth(xs, window_size)                                                 *)
(***************************************************************************)
MaxT == 4
MaxWindow == 6
FeatureCounts == {1, 2}
SmVals == {0, 1}
WindowSizes == (-2)..MaxWindow

\* T, N = np.shape(xs); rows are indexed 0..T-1 as in the source
SmT == Len(sm_xs)
SmRow(i) == sm_xs[i + 1]

\* int(x / 2): Python's int() truncates toward zero
IntHalf(x) == IF x >= 0 THEN x \div 2 ELSE -((-x) \div 2)

win == IntHalf(sm_window_size - 1)

\* variant: the symmetric window t-win .. t+win clipped to 0 .. T-1
smooth_window_inclusive(t) == Arange(Max(t - win, 0), Min(t + win + 1, SmT))

smooth_window(t) == Arange(Max(t - win, 0), Min(t + win, SmT - 1))

SmoothRow(t) ==
    LET w == smooth_window(t)
    IN  [f \in 1..Len(sm_xs[1]) |-> Mean([k \in 1..Len(w) |-> SmRow(w[k])[f]])]

InitSmooth ==
    /\ \E T \in 0..MaxT, N \in FeatureCounts :
          sm_xs \in [1..T -> [1..N -> SmVals]]
    /\ sm_window_size \in WindowSizes
    /\ sm_x_smooth = [k \in 1..Len(sm_xs) |-> [f \in 1..Len(sm_xs[k]) |-> FromInt(0)]]
    /\ sm_t = 0
    /\ sm_pc = "loop"
    /\ IdleR2 /\ IdleSim /\ IdlePsth /\ IdleFA /\ IdleClicks

SmoothIter ==
    /\ sm_pc = "loop"
    /\ sm_t < SmT
    /\ sm_x_smooth' = [sm_x_smooth EXCEPT ![sm_t + 1] = SmoothRow(sm_t)]
    /\ sm_t' = sm_t + 1
    /\ UNCHANGED <<sm_xs, sm_window_size, sm_pc>>
    /\ UNCHANGED <<r2Vars, simVars, psVars, faVars, clVars>>

SmoothReturn ==
    /\ sm_pc = "loop"
    /\ sm_t = SmT
    /\ sm_pc' = "return"
    /\ UNCHANGED <<sm_xs, sm_window_size, sm_x_smooth, sm_t>>
    /\ UNCHANGED <<r2Vars, simVars, psVars, faVars, clVars>>

NextSmooth == SmoothIter \/ SmoothReturn

SpecSmooth == InitSmooth /\ [][NextSmooth]_vars

RECURSIVE SumOver(_, _)
SumOver(S, f) ==
    IF S = {} THEN 0
    ELSE LET i == CHOOSE j \in S : TRUE
         IN  SmRow(i)[f] + SumOver(S \ {i}, f)

FloorWin == (sm_window_size - 1) \div 2

WindowSet(t) ==
    {i \in 0..(SmT - 1) : Max(t - FloorWin, 0) <= i /\ i < Min(t + FloorWin, SmT - 1)}

SmConstant == \A a, b \in 1..SmT : sm_xs[a] = sm_xs[b]

C2_ConstantUnchanged ==
    (sm_pc = "return" /\ SmT >= 1 /\ sm_window_size >= 1 /\ SmConstant)
        => \A t \in 0..(SmT - 1) : \A f \in 1..Len(SmRow(t)) :
              sm_x_smooth[t + 1][f] = FromInt(SmRow(t)[f])

(***************************************************************************)
(* compute_r2(true_psths, sim_psths)                                       *)
(*                                                                         *)
(* A PSTH is a list of bins, each a series of rates (here small integers); *)
(* an empty bin has length 0.  Entry i of the two lists is read only at    *)
(* lines 202-203, so it is drawn there.  The non-empty bins of one neuron  *)
(* share their length, as plot_psths builds them (np.mean of line 205      *)
(* needs it), and a simulated bin has the length of the true bin it is     *)
(* subtracted from.                                                        *)
(***************************************************************************)
R2MaxNeurons == 2
R2BinCounts == {1, 2}
R2Lens == {1, 2}
R2Vals == {0, 1}

R2Bins(T) == {<<>>} \cup [1..T -> R2Vals]

\* the pairs (true_psths[i], sim_psths[i]) a call may hold
R2Pairs ==
    UNION {{<<tp, sp>> : tp \in [1..NC -> R2Bins(T)], sp \in [1..NC -> R2Bins(T)]} :
              NC \in R2BinCounts, T \in R2Lens}

R2Compatible(tp, sp) ==
    \A c \in 1..Len(tp) : Len(tp[c]) > 0 => Len(sp[c]) = Len(tp[c])

RECURSIVE Concat(_)
Concat(ss) == IF ss = <<>> THEN <<>> ELSE Head(ss) \o Concat(Tail(ss))

\* lines 204-205: the mean over all elements of the bins of non-zero length
GrandMean(true_psth) == Mean(Concat(true_psth))

Sq(q) == RMul(q, q)

RECURSIVE RSum(_)
RSum(s) == IF s = <<>> THEN FromInt(0) ELSE RAdd(Head(s), RSum(Tail(s)))

\* line 215: np.sum((true_psth[j] - sim_psth[j])**2)
SqErr(a, b) == RSum([k \in 1..Len(a) |-> Sq(FromInt(a[k] - b[k]))])

\* line 216: np.sum((mean_PSTH - true_psth[j])**2)
SqDev(m, a) == RSum([k \in 1..Len(a) |-> Sq(RSub(m, FromInt(a[k])))])

\* the spec's non-degenerate case: the rates of the non-empty bins are not all equal
NonDegenerate(true_psth) ==
    LET all == Concat(true_psth)
    IN  \E a, b \in 1..Len(all) : all[a] # all[b]

InitR2 ==
    /\ r2_N \in 1..R2MaxNeurons
    /\ r2_i = 0 /\ r2_j = 0
    /\ r2_true_psth = <<>> /\ r2_sim_psth = <<>>
    /\ r2_mean_PSTH = FromInt(0) /\ r2_num = FromInt(0) /\ r2_den = FromInt(0)
    /\ r2_r2 = [k \in 1..r2_N |-> FromInt(0)]
    /\ r2_same = <<>>
    /\ r2_pc = "for_i"
    /\ IdleSmooth /\ IdleSim /\ IdlePsth /\ IdleFA /\ IdleClicks

\* lines 200-211
R2Neuron ==
    /\ r2_pc = "for_i"
    /\ r2_i < r2_N
    /\ \E pr \in R2Pairs :
          /\ R2Compatible(pr[1], pr[2])
          /\ r2_true_psth' = pr[1]
          /\ r2_sim_psth' = pr[2]
          /\ r2_mean_PSTH' = GrandMean(pr[1])
          /\ r2_same' = Append(r2_same, pr[2] = pr[1] /\ NonDegenerate(pr[1]))
    /\ r2_num' = FromInt(0)
    /\ r2_den' = FromInt(0)
    /\ r2_j' = 0
    /\ r2_pc' = "for_j"
    /\ UNCHANGED <<r2_N, r2_i, r2_r2>>
    /\ UNCHANGED <<smVars, simVars, psVars, faVars, clVars>>

\* lines 212-216
R2Bin ==
    /\ r2_pc = "for_j"
    /\ r2_j < Len(r2_true_psth)
    /\ LET tb == r2_true_psth[r2_j + 1]
           sb == r2_sim_psth[r2_j + 1]
       IN  IF Len(tb) > 0
           THEN /\ r2_num' = RAdd(r2_num, SqErr(tb, sb))
                /\ r2_den' = RAdd(r2_den, SqDev(r2_mean_PSTH, tb))
           ELSE UNCHANGED <<r2_num, r2_den>>
    /\ r2_j' = r2_j + 1
    /\ UNCHANGED <<r2_N, r2_i, r2_true_psth, r2_sim_psth, r2_mean_PSTH, r2_r2,
                   r2_same, r2_pc>>
    /\ UNCHANGED <<smVars, simVars, psVars, faVars, clVars>>

\* 1 - num / den with the operands of the division exchanged
R2Value_inverted(num, den) == RSub(FromInt(1), RDiv(den, num))

\* line 218: r2[i] = 1 - num / den
R2Value(num, den) == RSub(FromInt(1), RDiv(num, den))

R2Store ==
    /\ r2_pc = "for_j"
    /\ r2_j = Len(r2_true_psth)
    /\ r2_r2' = [r2_r2 EXCEPT ![r2_i + 1] = R2Value(r2_num, r2_den)]
    /\ r2_i' = r2_i + 1
    /\ r2_pc' = "for_i"
    /\ UNCHANGED <<r2_N, r2_j, r2_true_psth, r2_sim_psth, r2_mean_PSTH, r2_num,
                   r2_den, r2_same>>
    /\ UNCHANGED <<smVars, simVars, psVars, faVars, clVars>>

\* line 220
R2Return ==
    /\ r2_pc = "for_i"
    /\ r2_i = r2_N
    /\ r2_pc' = "return"
    /\ UNCHANGED <<r2_N, r2_i, r2_j, r2_true_psth, r2_sim_psth, r2_mean_PSTH,
                   r2_num, r2_den, r2_r2, r2_same>>
    /\ UNCHANGED <<smVars, simVars, psVars, faVars, clVars>>

NextR2 == R2Neuron \/ R2Bin \/ R2Store \/ R2Return

SpecR2 == InitR2 /\ [][NextR2]_vars

\* C3: every neuron already scored whose simulated PSTH equalled a
\* non-degenerate true PSTH has r2 exactly 1.
C3_IdenticalGivesOne ==
    \A k \in 1..r2_i : r2_same[k] => r2_r2[k] = FromInt(1)

\* C3 witness: a returned result in which the last neuron had identical,
\* non-degenerate PSTHs with an empty bin beside a non-empty one.
C3_Witness ==
    /\ r2_pc = "return"
    /\ r2_N = R2MaxNeurons
    /\ r2_same[r2_N]
    /\ \E c \in 1..Len(r2_true_psth) : Len(r2_true_psth[c]) = 0
    /\ r2_r2[r2_N] = FromInt(1)

(***************************************************************************)
(* simulate_accumulator(model, inputs, num_repeats)                        *)
(*                                                                         *)
(* model.sample is the caller's: it returns any triple (z, x, y) of series *)
(* of the length it was asked for.  sim_calls is the history of its calls. *)
(***************************************************************************)
SimMaxRepeats == 2
SimInputCounts == {0, 1, 2}
SimInputSet == {<<>>, <<1>>, <<0, 1>>}
SimObs == {0, 1}

\* N = len(inputs)
SimN == Len(sim_inputs)

InitSim ==
    /\ \E N \in SimInputCounts : sim_inputs \in [1..N -> SimInputSet]
    /\ sim_num_repeats \in 0..SimMaxRepeats
    /\ sim_r = 0 /\ sim_n = 0
    /\ sim_ys = <<>>
    /\ sim_calls = <<>>
    /\ sim_pc = "loop"
    /\ IdleSmooth /\ IdleR2 /\ IdlePsth /\ IdleFA /\ IdleClicks

\* the latent trajectory x in place of the observations
Collected_latent(z, x, y) == x

\* line 121: the element appended to ys
Collected(z, x, y) == y

\* lines 118-121: one pass of the inner loop
SimSample ==
    /\ sim_pc = "loop"
    /\ sim_r < sim_num_repeats
    /\ sim_n < SimN
    /\ LET u == sim_inputs[sim_n + 1]
           T == Len(u)
       IN  \E z \in [1..T -> SimObs], x \in [1..T -> SimObs], y \in [1..T -> SimObs] :
              /\ sim_calls' = Append(sim_calls,
                                     [r |-> sim_r, n |-> sim_n, T |-> T, u |-> u, y |-> y])
              /\ sim_ys' = Append(sim_ys, Collected(z, x, y))
    /\ sim_n' = sim_n + 1
    /\ UNCHANGED <<sim_inputs, sim_num_repeats, sim_r, sim_pc>>
    /\ UNCHANGED <<smVars, r2Vars, psVars, faVars, clVars>>

\* line 117: the inner loop is exhausted, the next repeat starts
SimNextRepeat ==
    /\ sim_pc = "loop"
    /\ sim_r < sim_num_repeats
    /\ sim_n = SimN
    /\ sim_r' = sim_r + 1
    /\ sim_n' = 0
    /\ UNCHANGED <<sim_inputs, sim_num_repeats, sim_ys, sim_calls, sim_pc>>
    /\ UNCHANGED <<smVars, r2Vars, psVars, faVars, clVars>>

\* line 123
SimReturn ==
    /\ sim_pc = "loop"
    /\ sim_r = sim_num_repeats
    /\ sim_pc' = "return"
    /\ UNCHANGED <<sim_inputs, sim_num_repeats, sim_r, sim_n, sim_ys, sim_calls>>
    /\ UNCHANGED <<smVars, r2Vars, psVars, faVars, clVars>>

NextSim == SimSample \/ SimNextRepeat \/ SimReturn

SpecSim == InitSim /\ [][NextSim]_vars

\* C6: sample has been called once per (repeat, input) pair reached so far, in
\* repeat-major order, with the length and values of inputs[n]; ys holds the
\* observation of call r*N+n at position r*N+n; on return both hold
\* num_repeats*N entries.
C6_OnePerRepeatAndInput ==
    /\ Len(sim_calls) = sim_r * SimN + sim_n
    /\ Len(sim_ys) = Len(sim_calls)
    /\ sim_pc = "return" => Len(sim_ys) = sim_num_repeats * SimN
    /\ \A r \in 0..(sim_num_repeats - 1) : \A n \in 0..(SimN - 1) :
          LET k == r * SimN + n + 1
          IN  k <= Len(sim_ys) =>
                /\ sim_calls[k].r = r /\ sim_calls[k].n = n
                /\ sim_calls[k].u = sim_inputs[n + 1]
                /\ sim_calls[k].T = Len(sim_inputs[n + 1])
                /\ sim_ys[k] = sim_calls[k].y

\* C6 witness: two repeats over two inputs of different lengths have returned
\* four observations, the two repeats of the same input differing.
C6_Witness ==
    /\ sim_pc = "return"
    /\ sim_num_repeats = 2 /\ SimN = 2
    /\ Len(sim_inputs[1]) # Len(sim_inputs[2])
    /\ Len(sim_ys) = 4
    /\ sim_ys[1] # sim_ys[3]

(***************************************************************************)
(* plot_psths(ys, inputs, ...), lines 129-159: the seven index bins.       *)
(*                                                                         *)
(* inputs is an array of shape (trials, time, channels).  Input values are *)
(* in units of 0.0005, so that 1e-3 is 2 units and sums are exact.  Trial  *)
(* indices and positions are 0-based as in the source.  Lines 160-178 read *)
(* all_idx and ys only and are not part of the model.                      *)
(***************************************************************************)
PsMaxTrials == 4
num_partitions == 3

\* the inputs of one trial, by shape (time, channels)
PsTrialInputs ==
    { [1..1 -> [1..1 -> {-4000, -2000, -1, 0, 2000, 4000}]],
      [1..2 -> [1..1 -> {-2000, 2000}]],
      [1..1 -> [1..2 -> {0, 1, 2000}]],
      [1..1 -> [1..3 -> {0}]] }

PsP == Len(ps_inputs)

\* np.shape(inputs)[2]
PsChannels == Len(ps_inputs[1][1])

\* lines 137 and 139: the evidence strength of one trial
USum(u) ==
    IF Len(u[1]) = 1
    THEN SumSeq([k \in 1..Len(u) |-> u[k][1]])
    ELSE SumSeq([k \in 1..Len(u) |-> u[k][1] - u[k][2]])

\* s[lo:hi] for 0-based lo, hi within 0..len(s)
Slice(s, lo, hi) == SubSeq(s, lo + 1, hi)

\* np.array_split(a, n): the first len(a) % n sections hold len(a) // n + 1
\* elements, the others len(a) // n
array_split(a, n) ==
    LET q == Len(a) \div n
        r == Len(a) % n
        start(k) == (k - 1) * q + Min(k - 1, r)
    IN  [k \in 1..n |-> Slice(a, start(k), start(k + 1))]

\* np.argsort(u_sums): a permutation of the trial indices that sorts the
\* strengths; the order of equal strengths is the sort's own (quicksort)
IsArgsort(p, u) ==
    /\ {p[k] : k \in 1..Len(p)} = 0..(Len(u) - 1)
    /\ \A k \in 1..(Len(p) - 1) : u[p[k] + 1] <= u[p[k + 1] + 1]

u_sorted == [k \in 1..Len(ps_idx_sort) |-> ps_u_sums[ps_idx_sort[k] + 1]]

\* np.where(cond)[0]: the 0-based positions of u_sorted that satisfy cond
RECURSIVE WhereFrom(_, _)
WhereFrom(mask, k) ==
    IF k > Len(mask) THEN <<>>
    ELSE (IF mask[k] THEN <<k - 1>> ELSE <<>>) \o WhereFrom(mask, k + 1)

Where(mask) == WhereFrom(mask, 1)

IsNeg(x) == x < 0
IsPos(x) == x > 0
\* np.abs(x) < 1e-3
IsZero(x) == Abs(x) < 2

InitPsth ==
    /\ \E P \in 1..PsMaxTrials : \E S \in PsTrialInputs : ps_inputs \in [1..P -> S]
    /\ ps_u_sums = <<>> /\ ps_idx_sort = <<>>
    /\ ps_u_below_0 = 0 /\ ps_u_above_0 = 0 /\ ps_u_0 = <<>>
    /\ ps_all_idx = <<>>
    /\ ps_pc = "sums"
    /\ IdleSmooth /\ IdleR2 /\ IdleSim /\ IdleFA /\ IdleClicks

\* lines 135-139
PsSums ==
    /\ ps_pc = "sums"
    /\ IF PsChannels = 1 \/ PsChannels = 2
       THEN /\ ps_u_sums' = [k \in 1..PsP |-> USum(ps_inputs[k])]
            /\ ps_pc' = "argsort"
       ELSE /\ ps_pc' = "AssertionError"
            /\ UNCHANGED ps_u_sums
    /\ UNCHANGED <<ps_inputs, ps_idx_sort, ps_u_below_0, ps_u_above_0, ps_u_0,
                   ps_all_idx>>
    /\ UNCHANGED <<smVars, r2Vars, simVars, faVars, clVars>>

\* lines 147-148
PsArgsort ==
    /\ ps_pc = "argsort"
    /\ \E p \in [1..PsP -> 0..(PsP - 1)] :
          /\ IsArgsort(p, ps_u_sums)
          /\ ps_idx_sort' = p
    /\ ps_pc' = "where"
    /\ UNCHANGED <<ps_inputs, ps_u_sums, ps_u_below_0, ps_u_above_0, ps_u_0,
                   ps_all_idx>>
    /\ UNCHANGED <<smVars, r2Vars, simVars, faVars, clVars>>

\* lines 149-151: [0][-1] and [0][0] raise IndexError on an empty result
PsWhere ==
    /\ ps_pc = "where"
    /\ LET neg == Where([k \in 1..Len(u_sorted) |-> IsNeg(u_sorted[k])])
           pos == Where([k \in 1..Len(u_sorted) |-> IsPos(u_sorted[k])])
       IN  IF neg = <<>> \/ pos = <<>>
           THEN /\ ps_pc' = "IndexError"
                /\ UNCHANGED <<ps_u_below_0, ps_u_above_0, ps_u_0>>
           ELSE /\ ps_u_below_0' = neg[Len(neg)]
                /\ ps_u_above_0' = pos[1]
                /\ ps_u_0' = Where([k \in 1..Len(u_sorted) |-> IsZero(u_sorted[k])])
                /\ ps_pc' = "split"
    /\ UNCHANGED <<ps_inputs, ps_u_sums, ps_idx_sort, ps_all_idx>>
    /\ UNCHANGED <<smVars, r2Vars, simVars, faVars, clVars>>

\* line 153
idx_below_0 == array_split(Slice(ps_idx_sort, 0, ps_u_below_0), num_partitions)

\* line 154
idx_0 == [k \in 1..Len(ps_u_0) |-> ps_idx_sort[ps_u_0[k] + 1]]

\* line 155
idx_above_0 ==
    array_split(Slice(ps_idx_sort, ps_u_above_0, Len(ps_idx_sort)), num_partitions)

\* lines 153-159
PsSplit ==
    /\ ps_pc = "split"
    /\ ps_all_idx' = idx_below_0 \o <<idx_0>> \o idx_above_0
    /\ ps_pc' = "binned"
    /\ UNCHANGED <<ps_inputs, ps_u_sums, ps_idx_sort, ps_u_below_0, ps_u_above_0,
                   ps_u_0>>
    /\ UNCHANGED <<smVars, r2Vars, simVars, faVars, clVars>>

NextPsth == PsSums \/ PsArgsort \/ PsWhere \/ PsSplit

SpecPsth == InitPsth /\ [][NextPsth]_vars

\* how often trial index i occurs in the seven bins
PsOccurrences(i) ==
    Cardinality({<<b, k>> \in (1..Len(ps_all_idx)) \X (1..PsP) :
                    k <= Len(ps_all_idx[b]) /\ ps_all_idx[b][k] = i})

\* as many trials of strength v as of strength -v, none within 1e-3 of zero
PsSymmetric ==
    /\ \A a \in 1..PsP :
          Cardinality({k \in 1..PsP : ps_u_sums[k] = ps_u_sums[a]}) =
          Cardinality({k \in 1..PsP : ps_u_sums[k] = -ps_u_sums[a]})
    /\ \A a \in 1..PsP : ~IsZero(ps_u_sums[a])

\* C1 as stated: for strengths symmetric around zero with none within 1e-3 of
\* zero, bin 3 is empty and the seven bins hold every trial index exactly once.
C1_BinsPartitionTrials ==
    (ps_pc = "binned" /\ PsSymmetric)
        => /\ Len(ps_all_idx) = 7
           /\ ps_all_idx[4] = <<>>
           /\ \A i \in 0..(PsP - 1) : PsOccurrences(i) = 1

(***************************************************************************)
(* factor_analysis(D, ys, num_iters)                                       *)
(*                                                                         *)
(* What is modelled is the control flow, which entries of psi are written, *)
(* and what each result is computed from.  Entries of psi are in units of  *)
(* 1e-7.  The real matrices lamb and Cfa are named by the iteration that   *)
(* computed them (Cfa 0 is the random start); a log-likelihood and a       *)
(* latent estimate are the terms of what they are computed from.  The      *)
(* residual matrix of the M-step is any N x N matrix.                      *)
(*                                                                         *)
(* The module binds no name trange (lines 1-6 import none): line 70 finds  *)
(* it only if the host has put it in the module's globals, fa_trange.      *)
(***************************************************************************)
FaMaxIters == 3
FaMaxSeqs == 2
FaDims == {1, 2}
FaObsDims == {1, 2}
FaResiduals == {0, 4}
\* 1.0 and 1e-7 in units of 1e-7
FaOne == 10000000
FaFloor == 1

\* the observation vectors a sequence may hold, and the sequences
FaObs(N) == {[c \in 1..N |-> 0], [c \in 1..N |-> c]}
FaSeqs(N) ==
    {<<>>} \cup {<<y>> : y \in FaObs(N)}
           \cup {<<[c \in 1..N |-> 0], [c \in 1..N |-> c]>>}

\* line 54
all_y == Concat(fa_ys)
\* line 57
Nobs == Len(all_y)
FaN == Len(all_y[1])
\* line 60
mu_y == [c \in 1..FaN |-> Rat(SumSeq([k \in 1..Nobs |-> all_y[k][c]]), Nobs)]

\* np.eye(N)
Eye(N) == [a \in 1..N |-> [b \in 1..N |-> IF a = b THEN FaOne ELSE 0]]
\* np.diag(m)
Diag(m) == [a \in 1..Len(m) |-> m[a][a]]
\* np.fill_diagonal(m, d)
FillDiagonal(m, d) ==
    [a \in 1..Len(m) |-> [b \in 1..Len(m) |-> IF a = b THEN d[a] ELSE m[a][b]]]

\* variant: psi is assigned the whole residual matrix
MStepPsiWhole(psi, S) == S

\* line 81, S being (1/Nobs)(ys_zero.T ys_zero - ys_zero.T mu_x Cfa.T)
MStepPsi(psi, S) == FillDiagonal(psi, Diag(S))

\* line 84
FloorPsi(psi) ==
    FillDiagonal(psi, Diag([a \in 1..Len(psi) |->
                               [b \in 1..Len(psi) |->
                                   psi[a][b] + (IF a = b THEN FaFloor ELSE 0)]]))

\* line 87: the log-likelihood of all_y under N(mu_y, Cfa Cfa.T + psi)
LogPy(C, psi) == [C |-> C, psi |-> psi, mean |-> mu_y, data |-> all_y]

\* line 94, for one row y of one sequence
XHat(lamb, C, psi, y) == [lamb |-> lamb, C |-> C, psi |-> psi, y |-> y, mean |-> mu_y]

\* variant: the estimates of the pooled observations, as one sequence
MyXhatsPooled == <<[t \in 1..Nobs |-> XHat(fa_lamb, fa_Cfa, fa_psi, all_y[t])]>>

\* line 94
MyXhats ==
    [k \in 1..Len(fa_ys) |->
        [t \in 1..Len(fa_ys[k]) |-> XHat(fa_lamb, fa_Cfa, fa_psi, fa_ys[k][t])]]

InitFA ==
    /\ fa_D \in FaDims
    /\ \E N \in FaObsDims : \E K \in 1..FaMaxSeqs :
          /\ fa_ys \in [1..K -> FaSeqs(N)]
          /\ \E k \in 1..K : fa_ys[k] # <<>>
    /\ fa_num_iters \in 0..FaMaxIters
    /\ fa_trange \in BOOLEAN
    /\ fa_i = 0
    /\ fa_lamb = -1
    /\ fa_Cfa = -1
    /\ fa_psi = <<>>
    /\ fa_lls = <<>>
    /\ fa_my_xhats = <<>>
    /\ fa_pc = "start"
    /\ IdleSmooth /\ IdleR2 /\ IdleSim /\ IdlePsth /\ IdleClicks

\* lines 53-71: Cfa and psi are initialised, then trange is looked up
FaSetup ==
    /\ fa_pc = "start"
    /\ fa_Cfa' = 0
    /\ fa_psi' = Eye(FaN)
    /\ fa_pc' = IF fa_trange THEN "loop" ELSE "NameError"
    /\ UNCHANGED <<fa_D, fa_ys, fa_num_iters, fa_trange, fa_i, fa_lamb, fa_lls,
                   fa_my_xhats>>
    /\ UNCHANGED <<smVars, r2Vars, simVars, psVars, clVars>>

\* lines 72-91: one EM iteration
FaIter ==
    /\ fa_pc = "loop"
    /\ fa_i < fa_num_iters
    /\ fa_lamb' = fa_i + 1
    /\ fa_Cfa' = fa_i + 1
    /\ \E S \in [1..FaN -> [1..FaN -> FaResiduals]] :
          fa_psi' = FloorPsi(MStepPsi(fa_psi, S))
    /\ fa_lls' = fa_lls \o <<LogPy(fa_Cfa', fa_psi')>>
    /\ fa_i' = fa_i + 1
    /\ UNCHANGED <<fa_D, fa_ys, fa_num_iters, fa_trange, fa_my_xhats, fa_pc>>
    /\ UNCHANGED <<smVars, r2Vars, simVars, psVars, clVars>>

\* lines 93-96: lamb is bound only by the loop body
FaReturn ==
    /\ fa_pc = "loop"
    /\ fa_i = fa_num_iters
    /\ IF fa_lamb = -1
       THEN /\ fa_pc' = "UnboundLocalError"
            /\ UNCHANGED fa_my_xhats
       ELSE /\ fa_my_xhats' = MyXhats
            /\ fa_pc' = "return"
    /\ UNCHANGED <<fa_D, fa_ys, fa_num_iters, fa_trange, fa_i, fa_lamb, fa_Cfa,
                   fa_psi, fa_lls>>
    /\ UNCHANGED <<smVars, r2Vars, simVars, psVars, clVars>>

NextFA == FaSetup \/ FaIter \/ FaReturn

SpecFA == InitFA /\ [][NextFA]_vars

\* C5 as stated: every call returns, after exactly num_iters iterations, with
\* one log-likelihood per iteration, entry k being the one iteration k appended.
C5_RunsNumItersAndReturns ==
    /\ fa_pc \notin {"NameError", "UnboundLocalError"}
    /\ Len(fa_lls) = fa_i
    /\ \A k \in 1..Len(fa_lls) : fa_lls[k].C = k
    /\ fa_pc = "return" => (fa_i = fa_num_iters /\ Len(fa_lls) = fa_num_iters)

ClMaxClicks == 2
ClMaxD == 2
ClRates == {0, 20}

\* 1.0, 0.25, 0.3, 0.2, 0.1, 61.20000000000002 and 5.1000000000000005
F1 == [m |-> <<0, 0, 0, 128>>, e |-> -52]
F025 == [m |-> <<0, 0, 0, 128>>, e |-> -54]
F03 == [m |-> <<13107, 26214, 19660, 153>>, e |-> -54]
F02 == [m |-> <<6554, 13107, 26214, 204>>, e |-> -55]
F01 == [m |-> <<6554, 13107, 26214, 204>>, e |-> -56]
F612 == [m |-> <<6556, 13107, 26214, 244>>, e |-> -47]
F51 == [m |-> <<26215, 19660, 6553, 163>>, e |-> -50]

\* the (T, dt) a call is made with
ClInputs == {<<F1, F025>>, <<F1, F03>>, <<F1, F01>>, <<F02, F01>>, <<F612, F51>>}

\* the event times a draw may return: 0.0, dt if below T, the last double below T
ClTimes(T, dt) == {FZero, FPred(T)} \cup (IF FCmp(dt, T) < 0 THEN {dt} ELSE {})

\* len(np.arange(0.0, T + dt, dt)) = ceil((stop - start) / step)
ArangeLen(T, dt) == FCeil(FDiv(FAdd(T, dt), dt))

\* np.arange(0.0, T + dt, dt): element i is start + i * delta
BinEdges(T, dt) == [i \in 1..ArangeLen(T, dt) |-> FMulInt(i - 1, dt)]

\* np.histogram(a, edges)[0]: bin b holds edges[b] <= x < edges[b+1], the last
\* bin its right edge too; no bin for fewer than two edges
Histogram(a, edges) ==
    [b \in 1..(Len(edges) - 1) |->
        Cardinality({k \in 1..Len(a) :
            /\ FCmp(edges[b], a[k]) <= 0
            /\ \/ FCmp(a[k], edges[b + 1]) < 0
               \/ b = Len(edges) - 1 /\ FCmp(a[k], edges[b + 1]) = 0})]

\* np.sort of an array of shape [num, 1] sorts every row of one element
SortRows(a) == a

InitClicks ==
    /\ cl_fn \in {"generate_clicks", "generate_clicks_D"}
    /\ \E inp \in ClInputs : cl_T = inp[1] /\ cl_dt = inp[2]
    /\ IF cl_fn = "generate_clicks"
       THEN cl_rates \in [1..2 -> ClRates]
       ELSE \E D \in 0..ClMaxD : cl_rates \in [1..D -> ClRates]
    /\ cl_num = <<>> /\ cl_times = <<>> /\ cl_binned = <<>>
    /\ cl_pc = "poisson"
    /\ IdleSmooth /\ IdleR2 /\ IdleSim /\ IdlePsth /\ IdleFA

\* lines 15-16, 37
ClPoisson ==
    /\ cl_pc = "poisson"
    /\ cl_num' \in [1..Len(cl_rates) -> 0..ClMaxClicks]
    /\ \A k \in 1..Len(cl_rates) : cl_rates[k] = 0 => cl_num'[k] = 0
    /\ cl_pc' = "uniform"
    /\ UNCHANGED <<cl_fn, cl_T, cl_dt, cl_rates, cl_times, cl_binned>>
    /\ UNCHANGED <<smVars, r2Vars, simVars, psVars, faVars>>

\* lines 19-20, 40-41
ClUniform ==
    /\ cl_pc = "uniform"
    /\ \E draw \in [1..Len(cl_num) -> UNION {[1..n -> ClTimes(cl_T, cl_dt)] : n \in 0..ClMaxClicks}] :
          /\ \A k \in 1..Len(cl_num) : Len(draw[k]) = cl_num[k]
          /\ cl_times' = [k \in 1..Len(cl_num) |-> SortRows(draw[k])]
    /\ cl_pc' = "histogram"
    /\ UNCHANGED <<cl_fn, cl_T, cl_dt, cl_rates, cl_num, cl_binned>>
    /\ UNCHANGED <<smVars, r2Vars, simVars, psVars, faVars>>

\* lines 23-26, 44-47
ClHistogram ==
    /\ cl_pc = "histogram"
    /\ LET edges == BinEdges(cl_T, cl_dt)
       IN  cl_binned' = [k \in 1..Len(cl_times) |-> Histogram(cl_times[k], edges)]
    /\ cl_pc' = "return"
    /\ UNCHANGED <<cl_fn, cl_T, cl_dt, cl_rates, cl_num, cl_times>>
    /\ UNCHANGED <<smVars, r2Vars, simVars, psVars, faVars>>

NextClicks == ClPoisson \/ ClUniform \/ ClHistogram

SpecClicks == InitClicks /\ [][NextClicks]_vars

\* C4 as stated: every returned count sequence has length ceil(T / dt).
C4_LengthIsCeil ==
    cl_pc = "return" =>
        \A k \in 1..Len(cl_binned) : Len(cl_binned[k]) = CeilQuotient(cl_T, cl_dt)

\* C10 as stated: the counts of a source are non-negative and add up to the
\* number of events drawn for it; a source with no event has all-zero counts.
C10_CountsConserveEvents ==
    cl_pc = "return" =>
        \A k \in 1..Len(cl_binned) :
            /\ \A b \in 1..Len(cl_binned[k]) : cl_binned[k][b] >= 0
            /\ SumSeq(cl_binned[k]) = cl_num[k]
            /\ SumSeq(cl_binned[k]) = Len(cl_times[k])

====
